---- MODULE Spec2Model ----
(***************************************************************************)
(* State-machine model of the real-time voice pipeline:                    *)
(*   VoiceProcessingEngine (voice-processing service) and the parts of the *)
(*   VoiceInterface component that drive it.                               *)
(* Every handler of the JavaScript event loop is one action: a handler     *)
(* runs to completion, and an async function is cut at each await.         *)
(***************************************************************************)
EXTENDS Integers, Sequences, FiniteSets, TLC

\* ------------------------------------------------------------- bounds
MaxRuns == 2      \* pipeline runs (utterances handed off) per behaviour
MaxChunks == 1    \* chunks buffered in audioChunks at any time
MaxTextLen == 3   \* length of a transcription returned by the STT service
MaxClicks == 2    \* clicks on the Interrupt button per behaviour
MaxElapsed == 2   \* clock units between two readings of performance.now()
MaxCustomers == 2 \* customers the agent manager serves
MaxContexts == 2  \* conversation contexts routeCall creates per behaviour
MaxHistory == 3   \* entries of a context's conversationHistory
MaxSaves == 2     \* appointment records counted per context (2 = two or more)

\* ------------------------------------------- program constants (x 1000)
SILENCE_THRESHOLD == 10
INTERRUPTION_THRESHOLD == 50
MIN_TEXT_LENGTH == 3

Runs == 1..MaxRuns
NoRun == 0
NoId == 0

\* rms readings fed to detectActivity, in thousandths: just below the
\* silence threshold, on it, on the interruption threshold, just above it.
Volumes == {SILENCE_THRESHOLD - 1, SILENCE_THRESHOLD, INTERRUPTION_THRESHOLD,
            INTERRUPTION_THRESHOLD + 1}

\* event.data.size of a chunk: empty or not.
ChunkSizes == {0, 1}

Chars == {" ", "a"}

RECURSIVE SeqsUpTo(_)
SeqsUpTo(n) ==
  IF n = 0 THEN {<<>>}
  ELSE LET shorter == SeqsUpTo(n - 1)
       IN shorter \cup {Append(s, c) : s \in {t \in shorter : Len(t) = n - 1}, c \in Chars}

Texts == SeqsUpTo(MaxTextLen)

\* The rejection of an external call, where a text is the other result.
Failure == <<"rejected">>

\* `mimeTypes` of getSupportedMimeType, in order of preference.
mimeTypes == <<"audio/webm;codecs=opus", "audio/webm", "audio/mp4",
               "audio/ogg;codecs=opus", "audio/wav", "audio/mpeg">>

\* The mimeType of a recorder created without options: the platform default.
DefaultMimeType == ""

\* A platform: the types MediaRecorder.isTypeSupported reports, and whether
\* the MediaRecorder constructor accepts the options initialize() passes.
Platforms ==
  [supported : SUBSET {mimeTypes[i] : i \in 1..Len(mimeTypes)},
   acceptsOptions : BOOLEAN]

\* The platform of the pipeline model: every type supported.
MainPlatform ==
  [supported |-> {mimeTypes[i] : i \in 1..Len(mimeTypes)}, acceptsOptions |-> TRUE]

VARIABLES
  \* --- VoiceProcessingEngine fields
  stream,               \* this.stream: TRUE when a MediaStream is held
  audioContext,         \* this.audioContext: "null" | "suspended" | "running"
  analyser,             \* this.analyser: TRUE when an AnalyserNode is held
  mediaRecorder,        \* this.mediaRecorder: "null" | "inactive" | "recording"
  mimeType,             \* this.mediaRecorder.mimeType, "null" without a recorder
  isProcessing,         \* this.isProcessing
  silenceTimer,         \* this.silenceTimer: 0 = null, else earliest firing time
  currentProcessingId,  \* this.currentProcessingId: NoId = null
  currentAudio,         \* this.currentAudio: NoRun = null, else the run whose Audio it is
  \* --- closures and platform objects
  platform,             \* the browser the page runs in
  perf,                 \* performance.now() readings of a run, and its record
  heard,                \* a reading above 0.05 was taken since the pending
                        \* silence timer was armed
  \* --- AgentManager
  activeContexts,       \* this.activeContexts: customer -> context object, or
                        \* NoContext
  contexts,             \* the ConversationContext objects routeCall created
  pending,              \* pending[c]: the call of routeCall or processMessage
                        \* for customer c that is awaiting something
  lastCall,             \* the last call of the manager that started,
                        \* threw or returned
  audioChunks,          \* audioChunks of setupRecordingHandlers
  stopTasks,            \* queued "dataavailable + stop" tasks of the recorder
  vadLoop,              \* a detectActivity callback is scheduled
  initPc,               \* position of initialize(): idle | gum | resume | done | failed
  now,                  \* the latest clock value the program has witnessed
  run,                  \* run[r]: one call of processAudioWithInterruption
  audio,                \* audio[r]: the Audio element run r created
  \* --- VoiceInterface
  engineRef,            \* voiceEngineRef.current is set
  uiSpeaking,           \* processingState.isSpeaking as last polled
  interruptionCount,    \* metrics.interruptionCount
  \* --- observation
  lastTick              \* what the handler that ran last was: a detectActivity
                        \* pass that found speech during playback
                        \* ("interruption") or without ("speech"), a reading
                        \* between the thresholds ("band") or below them
                        \* ("silence", or "trailing" with the timer
                        \* pending), a click on Interrupt during playback
                        \* ("manual"), directly after an interruption
                        \* ("again") or otherwise ("click"), a failure of
                        \* initialize() with the stream held ("late
                        \* failure"), or "none"

managerVars == <<activeContexts, contexts, pending, lastCall>>

vars == <<stream, audioContext, analyser, mediaRecorder, mimeType, platform, perf,
          managerVars, heard,
          isProcessing, silenceTimer,
          currentProcessingId, currentAudio, audioChunks, stopTasks, vadLoop,
          initPc, now, run, audio, engineRef, uiSpeaking, interruptionCount, lastTick>>

engineVars == <<stream, audioContext, analyser, mediaRecorder, isProcessing,
                silenceTimer, currentProcessingId, currentAudio>>

Max(a, b) == IF a >= b THEN a ELSE b

\* ------------------------------------------------------- AgentManager
Customers == 1..MaxCustomers
ContextIds == 1..MaxContexts
NoContext == 0

\* The two agents initializeAgents() registers, by type.
AgentTypes == {"booking", "consultation"}

\* What detectIntent returns: one of the three answers asked for, or
\* 'general_inquiry' when the call fails.
Intents == {"appointment_booking", "consultation_request", "general_inquiry"}

\* routeCall's selection: the booking agent when the intent includes
\* 'appointment', 'booking' or 'schedule', else the consultation agent.
SelectedAgent(intent) ==
  IF intent = "appointment_booking" THEN "booking" ELSE "consultation"

\* The entities handleBookingCompletion requires.
RequiredEntities == {"name", "date", "time", "service"}

\* The entities handleConsultationCompletion requires.
ConsultationEntities == {"name", "service"}

\* What extractEntities finds in a message, {} when the call fails.
EntitySets == {{}, ConsultationEntities, {"date", "time"}, RequiredEntities}

\* No call awaiting for a customer.
Idle == [pc |-> "idle", ctx |-> NoContext, agent |-> "none"]

\* A context object not yet created.
Unallocated ==
  [customerId |-> 0, currentAgent |-> "none", entities |-> {}, history |-> 0,
   saves |-> 0]

\* A call of processAudioWithInterruption: its position (pc), its locals
\* (id = processingId, blob = audioBlob) and what it has done so far: calls
\* issued to the STT, reply-generation and TTS services (stt, gpt, tts),
\* playbacks started (play), latency records logged (lat, and latStale for
\* those logged while another generation was current), errors logged by its
\* catch block (err), and the first stage at whose settling the run was no
\* longer the current generation (staleAt) and the generation that was
\* current then (staleBy).
NewRun ==
  [pc |-> "idle", id |-> NoId, blob |-> <<>>, staleAt |-> "none", staleBy |-> NoId,
   stt |-> 0, gpt |-> 0, tts |-> 0, play |-> 0, lat |-> 0, latStale |-> 0, err |-> 0]

\* The engine and the component after construction.
Constructed ==
  /\ stream = FALSE
  /\ audioContext = "null"
  /\ analyser = FALSE
  /\ mediaRecorder = "null"
  /\ mimeType = "null"
  /\ isProcessing = FALSE
  /\ silenceTimer = 0
  /\ heard = FALSE
  /\ currentProcessingId = NoId
  /\ currentAudio = NoRun
  /\ audioChunks = <<>>
  /\ stopTasks = 0
  /\ vadLoop = FALSE
  /\ initPc = "idle"
  /\ now = 1
  /\ run = [r \in Runs |-> NewRun]
  /\ audio = [r \in Runs |-> "none"]
  /\ engineRef = FALSE
  /\ uiSpeaking = FALSE
  /\ interruptionCount = 0
  /\ lastTick = "none"
  /\ activeContexts = [c \in Customers |-> NoContext]
  /\ contexts = [o \in ContextIds |-> Unallocated]
  /\ pending = [c \in Customers |-> Idle]
  /\ lastCall = <<"none", 0, "none">>

\* No latency record: nothing was logged.
NoMetrics == [stt |-> -1, gpt |-> -1, tts |-> -1, total |-> -1]

\* A run that has read no clock yet.
NoPerf == [stamps |-> <<>>, metrics |-> NoMetrics]

Init ==
  /\ Constructed
  /\ platform = MainPlatform
  /\ perf = NoPerf

\* The same on any platform.
MimeInit ==
  /\ Constructed
  /\ platform \in Platforms
  /\ perf = NoPerf

\* ------------------------------------------------------------ cleanup
\* Faulty variant of cleanup that stops the recorder whatever its state;
\* C20_CleanupIsIdempotent must reject it.
CleanupStopsAgain ==
  /\ stopTasks' = stopTasks + 1
  /\ stream' = FALSE
  /\ audioContext' = "null"
  /\ audio' = IF currentAudio # NoRun THEN [audio EXCEPT ![currentAudio] = "paused"]
              ELSE audio
  /\ currentAudio' = NoRun
  /\ silenceTimer' = 0
  /\ heard' = FALSE
  /\ mediaRecorder' = "null"
  /\ mimeType' = "null"
  /\ analyser' = FALSE
  /\ isProcessing' = FALSE
  /\ currentProcessingId' = NoId

\* cleanup(): stops a recording recorder (its stop event is delivered later
\* as a task), stops the tracks, closes the context, pauses the current
\* audio, clears the timer and resets the fields.
Cleanup ==
  /\ stopTasks' = IF mediaRecorder = "recording" THEN stopTasks + 1
                  ELSE stopTasks
  /\ stream' = FALSE
  /\ audioContext' = "null"
  /\ audio' = IF currentAudio # NoRun THEN [audio EXCEPT ![currentAudio] = "paused"]
              ELSE audio
  /\ currentAudio' = NoRun
  /\ silenceTimer' = 0
  /\ heard' = FALSE
  /\ mediaRecorder' = "null"
  /\ mimeType' = "null"
  /\ analyser' = FALSE
  /\ isProcessing' = FALSE
  /\ currentProcessingId' = NoId

\* ------------------------------------------- voice activity detection
\* Faulty variant of interruptCurrentResponse that leaves the generation
\* current; C5_SpeechInvalidatesOnlyDuringPlayback must reject it.
InterruptKeepsGeneration ==
  /\ audio' = IF currentAudio # NoRun THEN [audio EXCEPT ![currentAudio] = "paused"]
              ELSE audio
  /\ currentAudio' = NoRun
  /\ UNCHANGED currentProcessingId

\* Faulty variant of interruptCurrentResponse that pauses the audio and keeps
\* the handle; C21_InterruptIsIdempotent must reject it.
InterruptKeepsHandle ==
  /\ audio' = IF currentAudio # NoRun THEN [audio EXCEPT ![currentAudio] = "paused"]
              ELSE audio
  /\ UNCHANGED currentAudio
  /\ currentProcessingId' = NoId

\* interruptCurrentResponse(): pause and drop the current audio, cancel the
\* current processing.
InterruptCurrentResponse ==
  /\ audio' = IF currentAudio # NoRun THEN [audio EXCEPT ![currentAudio] = "paused"]
              ELSE audio
  /\ currentAudio' = NoRun
  /\ currentProcessingId' = NoId

\* `this.currentAudio && !this.currentAudio.paused`
IsSpeaking == currentAudio # NoRun /\ audio[currentAudio] = "playing"

\* Faulty variant of handleVoiceActivity that never interrupts;
\* C3_SpeechDuringPlaybackInterrupts must reject it.
HandleVoiceActivityNeverInterrupts(m) ==
  /\ silenceTimer' = 0
  /\ UNCHANGED <<audio, currentAudio, currentProcessingId, stopTasks>>
  /\ mediaRecorder' = IF m = "inactive" THEN "recording" ELSE m

\* Faulty variant of handleVoiceActivity that interrupts on every speech
\* tick; C6_SpeechWithoutPlaybackNoInterruption must reject it.
HandleVoiceActivityAlwaysInterrupts(m) ==
  /\ silenceTimer' = 0
  /\ InterruptCurrentResponse
  /\ mediaRecorder' = IF m = "inactive" THEN "recording" ELSE m
  /\ UNCHANGED stopTasks

\* Faulty variant of handleVoiceActivity that stops and restarts a recording
\* recorder; C19_StartIsIdempotent must reject it.
HandleVoiceActivityRestarts(m) ==
  /\ silenceTimer' = 0
  /\ IF IsSpeaking
       THEN InterruptCurrentResponse
       ELSE UNCHANGED <<audio, currentAudio, currentProcessingId>>
  /\ mediaRecorder' = IF m = "inactive" THEN "recording" ELSE m
  /\ stopTasks' = IF m = "recording" THEN stopTasks + 1 ELSE stopTasks

\* Faulty variant of handleVoiceActivity that, when it interrupts, does not
\* start the recorder; C36_InterruptingSpeechIsProcessed must reject it.
HandleVoiceActivityWithoutStart(m) ==
  /\ silenceTimer' = 0
  /\ IF IsSpeaking
       THEN InterruptCurrentResponse /\ mediaRecorder' = m
       ELSE /\ UNCHANGED <<audio, currentAudio, currentProcessingId>>
            /\ mediaRecorder' = IF m = "inactive" THEN "recording" ELSE m
  /\ UNCHANGED stopTasks

\* Faulty variant of handleVoiceActivity that leaves a pending silence timer
\* armed; C35_NoPrematureEndpointing must reject it.
HandleVoiceActivityKeepsTimer(m) ==
  /\ UNCHANGED silenceTimer
  /\ IF IsSpeaking
       THEN InterruptCurrentResponse
       ELSE UNCHANGED <<audio, currentAudio, currentProcessingId>>
  /\ mediaRecorder' = IF m = "inactive" THEN "recording" ELSE m
  /\ UNCHANGED stopTasks

\* handleVoiceActivity(volume), on a recorder in state m. start() on an
\* inactive recorder of a live stream succeeds.
HandleVoiceActivity(m) ==
  /\ silenceTimer' = 0
  /\ IF IsSpeaking
       THEN InterruptCurrentResponse
       ELSE UNCHANGED <<audio, currentAudio, currentProcessingId>>
  /\ mediaRecorder' = IF m = "inactive" THEN "recording" ELSE m
  /\ UNCHANGED stopTasks

\* The newest generation id handed out.
LastId == LET ids == {run[r].id : r \in Runs} IN CHOOSE i \in ids : \A j \in ids : j <= i

\* Clock values are only ever compared with generation ids, so every value
\* past the newest id stands for the same thing, "later than all ids": the
\* clock is kept at most one ahead of the newest id.
ClockValue(t) == IF t > LastId + 1 THEN LastId + 1 ELSE t

\* Faulty variant of handleSilence that arms a fresh timer on every silent
\* reading; C15_TrailingSilenceStopsRecording must reject it.
HandleSilenceRearms ==
  silenceTimer' = now + 1

\* The clock at the end of an animation frame: time has passed, by less or
\* by more than the clock's resolution.
FrameTimes == {ClockValue(now), ClockValue(now + 1)}

\* handleSilence(): arms the 1500 ms timer unless one is pending. The timer
\* holds the first clock value at which it can fire.
HandleSilence ==
  silenceTimer' = IF silenceTimer # 0 THEN silenceTimer ELSE now + 1

\* What a detectActivity pass on reading v is to an observer: speech during
\* playback or without, a reading between the thresholds, or silence with a
\* timer pending ("trailing") or without.
TickKind(v) ==
  IF v < SILENCE_THRESHOLD
    THEN IF silenceTimer # 0 THEN "trailing" ELSE "silence"
    ELSE IF v <= INTERRUPTION_THRESHOLD THEN "band"
    ELSE IF currentAudio # NoRun /\ audio[currentAudio] = "playing"
      THEN "interruption" ELSE "speech"

\* What a pass on reading v leaves of the record of readings above 0.05
\* taken while the timer now pending has been pending.
Heard(v) ==
  heard' = (silenceTimer' # 0 /\ (heard \/ v > INTERRUPTION_THRESHOLD))

\* Faulty variant of detectActivity that takes a reading on the
\* interruption threshold for speech; C14_SpeechTickStartsRecording must
\* reject it.
DetectActivityAtThreshold(v, m) ==
  /\ lastTick' = TickKind(v)
  /\ IF v >= INTERRUPTION_THRESHOLD
    THEN HandleVoiceActivity(m)
    ELSE /\ IF v < SILENCE_THRESHOLD THEN HandleSilence ELSE UNCHANGED silenceTimer
         /\ mediaRecorder' = m
         /\ UNCHANGED <<audio, currentAudio, currentProcessingId, stopTasks>>
  /\ Heard(v)

\* Faulty variant of detectActivity that takes a reading on the silence
\* threshold for silence; C16_HysteresisBandChangesNothing must reject it.
DetectActivitySilenceAtThreshold(v, m) ==
  /\ lastTick' = TickKind(v)
  /\ IF v > INTERRUPTION_THRESHOLD
    THEN HandleVoiceActivity(m)
    ELSE /\ IF v <= SILENCE_THRESHOLD THEN HandleSilence ELSE UNCHANGED silenceTimer
         /\ mediaRecorder' = m
         /\ UNCHANGED <<audio, currentAudio, currentProcessingId, stopTasks>>
  /\ Heard(v)

\* One pass of detectActivity's classification on reading v (thousandths).
DetectActivity(v, m) ==
  /\ lastTick' = TickKind(v)
  /\ IF v > INTERRUPTION_THRESHOLD
    THEN HandleVoiceActivity(m)
    ELSE /\ IF v < SILENCE_THRESHOLD THEN HandleSilence ELSE UNCHANGED silenceTimer
         /\ mediaRecorder' = m
         /\ UNCHANGED <<audio, currentAudio, currentProcessingId, stopTasks>>
  /\ Heard(v)

\* Faulty variant of the detectActivity callback without the check of the
\* analyser; C27_NoSamplerNoTransitions must reject it.
VadTickUnchecked(v) ==
  /\ vadLoop
  /\ now' \in FrameTimes
  /\ DetectActivity(v, mediaRecorder)
  /\ vadLoop' = TRUE
  /\ UNCHANGED <<stream, audioContext, analyser, mimeType, platform, perf, managerVars, isProcessing,
                 audioChunks, initPc, run, engineRef, uiSpeaking,
                 interruptionCount>>

\* A scheduled detectActivity callback runs, one animation frame after the
\* one before it: without an analyser it returns and schedules nothing,
\* otherwise it classifies the reading and schedules the next callback.
VadTick(v) ==
  /\ vadLoop
  /\ now' \in FrameTimes
  /\ IF ~analyser
       THEN /\ vadLoop' = FALSE
            /\ lastTick' = "none"
            /\ UNCHANGED <<silenceTimer, heard, mediaRecorder, audio, currentAudio,
                           currentProcessingId, stopTasks>>
       ELSE /\ DetectActivity(v, mediaRecorder)
            /\ vadLoop' = TRUE
  /\ UNCHANGED <<stream, audioContext, analyser, mimeType, platform, perf, managerVars, isProcessing,
                 audioChunks, initPc, run, engineRef, uiSpeaking,
                 interruptionCount>>

\* The silence timer's callback: SILENCE_DURATION has passed since it was
\* armed, and the task of an earlier stop() has been delivered long before.
TimerFire ==
  /\ lastTick' = "none"
  /\ silenceTimer # 0
  /\ mediaRecorder = "recording" => stopTasks = 0
  /\ now' = ClockValue(Max(now, silenceTimer))
  /\ IF mediaRecorder = "recording"
       THEN mediaRecorder' = "inactive" /\ stopTasks' = stopTasks + 1
       ELSE UNCHANGED <<mediaRecorder, stopTasks>>
  /\ silenceTimer' = 0
  /\ heard' = FALSE
  /\ UNCHANGED <<stream, audioContext, analyser, mimeType, platform, perf, managerVars, isProcessing,
                 currentProcessingId, currentAudio, audioChunks, vadLoop, initPc,
                 run, audio, engineRef, uiSpeaking, interruptionCount>>

\* ---------------------------------------------------------- initialize
\* Faulty variant of the catch block of initialize() that rethrows without
\* cleanup(); C22_FailedInitializeHoldsNothing must reject it.
InitFailsWithoutCleanup ==
  /\ lastTick' = IF stream THEN "late failure" ELSE "none"
  /\ initPc' = "failed"
  /\ UNCHANGED <<engineVars, heard, mimeType, audio, stopTasks, audioChunks,
                 vadLoop>>

\* The catch block of initialize(): cleanup(), then the error is rethrown to
\* startCall, which keeps the engine in voiceEngineRef.
InitFails ==
  /\ Cleanup
  /\ lastTick' = IF stream THEN "late failure" ELSE "none"
  /\ initPc' = "failed"
  /\ UNCHANGED <<audioChunks, vadLoop>>

\* Faulty variant of getSupportedMimeType that returns the last supported
\* type of the list; C23_FirstSupportedEncoding must reject it.
RECURSIVE LastSupportedMimeType(_, _)
LastSupportedMimeType(supported, i) ==
  IF i > Len(mimeTypes) THEN DefaultMimeType
  ELSE LET later == LastSupportedMimeType(supported, i + 1)
       IN IF later # DefaultMimeType THEN later
          ELSE IF mimeTypes[i] \in supported THEN mimeTypes[i]
          ELSE DefaultMimeType

\* getSupportedMimeType(), its loop from entry i of the list on: the first
\* entry isTypeSupported accepts, or the default.
RECURSIVE GetSupportedMimeType(_, _)
GetSupportedMimeType(supported, i) ==
  IF i > Len(mimeTypes) THEN DefaultMimeType
  ELSE IF mimeTypes[i] \in supported THEN mimeTypes[i]
  ELSE GetSupportedMimeType(supported, i + 1)

\* The mimeType of the recorder initialize() creates on platform p: the
\* selected type, or the default when none was selected or the constructor
\* threw on the options.
RecorderMimeType(p) ==
  LET supportedMimeType == GetSupportedMimeType(p.supported, 1)
  IN IF supportedMimeType # DefaultMimeType /\ p.acceptsOptions
       THEN supportedMimeType
       ELSE DefaultMimeType

\* The tail of initialize() once the context runs: analyser, source,
\* recorder, handlers, and the first detectActivity pass (reading v), which
\* startVoiceActivityDetection makes synchronously.
InitTail(v) ==
  /\ analyser' = TRUE
  /\ mimeType' = RecorderMimeType(platform)
  /\ audioChunks' = <<>>
  /\ DetectActivity(v, "inactive")
  /\ vadLoop' = TRUE
  /\ initPc' = "done"
  /\ UNCHANGED isProcessing

\* startCall: a new engine is stored in voiceEngineRef and initialize() runs
\* up to its first await on the platform (getUserMedia).
InitializeCall(supported) ==
  /\ initPc = "idle"
  /\ engineRef' = TRUE
  /\ IF supported
       THEN /\ initPc' = "gum"
            /\ lastTick' = "none"
            /\ UNCHANGED <<engineVars, heard, mimeType, audio, stopTasks,
                           audioChunks, vadLoop>>
       ELSE InitFails
  /\ UNCHANGED <<platform, perf, managerVars, now, run, uiSpeaking, interruptionCount>>

\* getUserMedia settles: the stream is stored, the context is created and,
\* unless it starts suspended, initialization runs to its end.
GetUserMediaReturn(outcome, v) ==
  /\ initPc = "gum"
  /\ outcome \in {"reject", "suspended", "running", "throw"}
  /\ CASE outcome = "suspended" ->
            /\ stream' = TRUE
            /\ audioContext' = "suspended"
            /\ initPc' = "resume"
            /\ lastTick' = "none"
            /\ UNCHANGED <<analyser, mediaRecorder, mimeType, isProcessing, silenceTimer, heard,
                           currentProcessingId, currentAudio, audio, stopTasks,
                           audioChunks, vadLoop>>
       [] outcome = "running" ->
            /\ stream' = TRUE
            /\ audioContext' = "running"
            /\ InitTail(v)
       [] OTHER -> InitFails
  /\ UNCHANGED <<platform, perf, managerVars, now, run, engineRef, uiSpeaking, interruptionCount>>

\* audioContext.resume() settles. After a cleanup() in between the context
\* is null and createAnalyser throws.
ResumeReturn(outcome, v) ==
  /\ initPc = "resume"
  /\ outcome \in {"reject", "running", "throw"}
  /\ IF outcome = "running" /\ audioContext # "null"
       THEN /\ audioContext' = "running"
            /\ InitTail(v)
            /\ UNCHANGED stream
       ELSE InitFails
  /\ UNCHANGED <<platform, perf, managerVars, now, run, engineRef, uiSpeaking, interruptionCount>>

\* endCall, or the unmount effect: cleanup() on the engine in voiceEngineRef.
EndCall ==
  /\ lastTick' = "none"
  /\ engineRef
  /\ Cleanup
  /\ engineRef' = FALSE
  /\ UNCHANGED <<platform, perf, managerVars, audioChunks, vadLoop, initPc, now, run, uiSpeaking,
                 interruptionCount>>

\* -------------------------------------------------------------- recorder
\* Faulty variant of the chunk handler that keeps empty chunks too;
\* C18_StopHandsOffOneUtterance must reject it.
PushEvenEmpty(chunks, size) ==
  Append(chunks, Len(chunks) + 1)

\* `if (event.data.size > 0) audioChunks.push(event.data)`. A chunk is named
\* by its arrival number since the buffer was last emptied.
Push(chunks, size) ==
  IF size > 0 THEN Append(chunks, Len(chunks) + 1) ELSE chunks

\* ondataavailable during a recording (one event per 100 ms slice): a
\* non-empty chunk is pushed. The recorder's events are delivered in the
\* order they were queued, so a slice of a recording started after a stop()
\* arrives after that stop's events.
DataAvailable(size) ==
  /\ lastTick' = "none"
  /\ mediaRecorder = "recording"
  /\ stopTasks = 0
  /\ Len(audioChunks) < MaxChunks
  /\ audioChunks' = Push(audioChunks, size)
  /\ UNCHANGED <<engineVars, mimeType, platform, perf, managerVars, heard, stopTasks, vadLoop, initPc, now,
                 run, audio, engineRef, uiSpeaking, interruptionCount>>

\* Date.now(): the clock never runs backwards between two readings, and two
\* readings may fall into the same millisecond.
ClockReadings == {ClockValue(now), ClockValue(now + 1)}

IdleRuns == {r \in Runs : run[r].pc = "idle"}

\* The task a stop() queued: the last dataavailable of that recording, then
\* onstop, which returns on an empty buffer and otherwise takes the buffer as
\* the utterance and enters processAudioWithInterruption, up to its first
\* await (blobToBase64).
RecorderStopEvent(size, t) ==
  /\ lastTick' = "none"
  /\ stopTasks > 0
  /\ t \in ClockReadings
  /\ stopTasks' = stopTasks - 1
  /\ LET chunks == Push(audioChunks, size)
     IN IF chunks = <<>>
          THEN /\ audioChunks' = chunks
               /\ UNCHANGED <<run, currentProcessingId, isProcessing, now>>
          ELSE /\ IdleRuns # {}
               /\ LET r == CHOOSE x \in IdleRuns : \A y \in IdleRuns : x <= y
                  IN /\ run' = [run EXCEPT ![r].pc = "b64", ![r].id = t,
                                           ![r].blob = chunks]
               /\ audioChunks' = <<>>
               /\ currentProcessingId' = t
               /\ isProcessing' = TRUE
               /\ now' = t
  /\ UNCHANGED <<stream, audioContext, analyser, mediaRecorder, mimeType, platform, perf, managerVars, heard,
                 silenceTimer, currentAudio, vadLoop, initPc, audio, engineRef,
                 uiSpeaking, interruptionCount>>

\* -------------------------------------------------------------- pipeline
IsSpace(c) == c = " "

\* String.prototype.trim on a sequence of characters.
RECURSIVE TrimLeft(_)
TrimLeft(t) == IF t # <<>> /\ IsSpace(Head(t)) THEN TrimLeft(Tail(t)) ELSE t

RECURSIVE TrimRight(_)
TrimRight(t) ==
  IF t # <<>> /\ IsSpace(t[Len(t)]) THEN TrimRight(SubSeq(t, 1, Len(t) - 1)) ELSE t

Trim(t) == TrimRight(TrimLeft(t))

\* Faulty variant of the short-text check that skips every transcription;
\* C11_ReplyIsPlayed must reject it.
SkipEveryTranscription(t) == TRUE

\* Faulty variant of the short-text check without the length test;
\* C9_ShortTextEndsSilently must reject it.
SkipOnlyBlankTranscription(t) == Trim(t) = <<>>

\* `!text.trim() || text.length < 3`
SkipTranscription(t) == Trim(t) = <<>> \/ Len(t) < MIN_TEXT_LENGTH

\* Faulty variant of the staleness check that never sees an interruption;
\* C1_StaleRunStops must reject it.
InterruptedNever(r) == FALSE

\* `this.currentProcessingId !== processingId`
Interrupted(r) == currentProcessingId # run[r].id

\* Run r's record with what an observer notes when its call at `stage`
\* returns: the first stage at whose return another generation (staleBy), or
\* none, was current.
Observed(r, stage) ==
  IF run[r].staleAt = "none" /\ currentProcessingId # run[r].id
    THEN [run[r] EXCEPT !.staleAt = stage, !.staleBy = currentProcessingId]
    ELSE run[r]

\* The run returns after its call at `stage`; its finally block clears the
\* flag.
RunReturns(r, stage) ==
  /\ run' = [run EXCEPT ![r] = [Observed(r, stage) EXCEPT !.pc = "done"]]
  /\ isProcessing' = FALSE

\* Faulty variant of the step to the next stage that issues the TTS call
\* together with the reply-generation call; C12_StagesAreSequential must
\* reject it.
RunAwaitsEagerly(r, stage, pc) ==
  /\ run' = [run EXCEPT ![r] = [Observed(r, stage) EXCEPT
                                  !.pc = pc, !.gpt = 1, !.tts = 1]]
  /\ UNCHANGED isProcessing

\* The run issues its next call and awaits it at pc.
RunAwaits(r, stage, pc) ==
  /\ run' = [run EXCEPT ![r] = [Observed(r, stage) EXCEPT
                                  !.pc = pc,
                                  !.gpt = IF pc = "gpt" THEN @ + 1 ELSE @,
                                  !.tts = IF pc = "tts" THEN @ + 1 ELSE @]]
  /\ UNCHANGED isProcessing

\* Faulty variant of the catch block that awaits the failed call again;
\* C10_FailureIsContained must reject it.
RunFailsAndRetries(r) ==
  /\ run' = [run EXCEPT ![r].err = @ + 1]
  /\ UNCHANGED isProcessing

\* The run's catch block logs the error, then the finally block.
RunFails(r) ==
  /\ run' = [run EXCEPT ![r].pc = "done", ![r].err = @ + 1]
  /\ isProcessing' = FALSE

pipelineFrame == <<stream, audioContext, analyser, mediaRecorder, mimeType,
                   platform, perf, managerVars, heard, silenceTimer,
                   audioChunks, stopTasks, vadLoop, initPc, now, engineRef,
                   uiSpeaking, interruptionCount>>

\* blobToBase64 settles; on success performSTT issues transcribeAudio.
B64Return(r, ok) ==
  /\ lastTick' = "none"
  /\ run[r].pc = "b64"
  /\ IF ok
       THEN /\ run' = [run EXCEPT ![r].pc = "stt", ![r].stt = @ + 1, ![r].blob = <<>>]
            /\ UNCHANGED isProcessing
       ELSE RunFails(r)
  /\ UNCHANGED <<pipelineFrame, currentProcessingId, currentAudio, audio>>

\* transcribeAudio settles, with res the text or Failure: staleness check,
\* short-text check, then performGPTProcessing issues generateText.
SttReturn(r, res) ==
  /\ lastTick' = "none"
  /\ run[r].pc = "stt"
  /\ IF res = Failure
       THEN RunFails(r)
       ELSE IF Interrupted(r) \/ SkipTranscription(res)
         THEN RunReturns(r, "stt")
         ELSE RunAwaits(r, "stt", "gpt")
  /\ UNCHANGED <<pipelineFrame, currentProcessingId, currentAudio, audio>>

\* generateText settles: staleness check, then performTTS issues
\* generateSpeech.
GptReturn(r, ok) ==
  /\ lastTick' = "none"
  /\ run[r].pc = "gpt"
  /\ IF ~ok
       THEN RunFails(r)
       ELSE IF Interrupted(r)
         THEN RunReturns(r, "gpt")
         ELSE RunAwaits(r, "gpt", "tts")
  /\ UNCHANGED <<pipelineFrame, currentProcessingId, currentAudio, audio>>

\* generateSpeech settles. On success playAudioWithInterruption creates the
\* Audio, stores it in currentAudio and calls play(); play() either starts
\* playback or (outcome "blocked") rejects at once, and then the rejection
\* handler clears currentAudio before the handler returns.
TtsReturn(r, outcome) ==
  /\ lastTick' = "none"
  /\ run[r].pc = "tts"
  /\ outcome \in {"fail", "ok", "blocked"}
  /\ CASE outcome = "ok" ->
            /\ run' = [run EXCEPT ![r] = [Observed(r, "tts") EXCEPT
                                            !.pc = "play", !.play = @ + 1]]
            /\ audio' = [audio EXCEPT ![r] = "playing"]
            /\ currentAudio' = r
            /\ UNCHANGED isProcessing
       [] outcome = "blocked" ->
            /\ RunFails(r)
            /\ audio' = [audio EXCEPT ![r] = "blocked"]
            /\ currentAudio' = NoRun
       [] OTHER ->
            /\ RunFails(r)
            /\ UNCHANGED <<audio, currentAudio>>
  /\ UNCHANGED <<pipelineFrame, currentProcessingId>>

\* logProcessingMetrics: one latency record.
LogProcessingMetrics(r) ==
  [run EXCEPT ![r].pc = "done", ![r].lat = @ + 1,
              ![r].latStale = IF currentProcessingId # run[r].id THEN @ + 1 ELSE @]

\* onended of run r's Audio: currentAudio is cleared, the playback promise
\* resolves and the run logs its latencies and returns.
AudioEnded(r) ==
  /\ lastTick' = "none"
  /\ audio[r] = "playing"
  /\ audio' = [audio EXCEPT ![r] = "ended"]
  /\ currentAudio' = NoRun
  /\ run' = LogProcessingMetrics(r)
  /\ isProcessing' = FALSE
  /\ UNCHANGED <<pipelineFrame, currentProcessingId>>

\* onerror of run r's Audio: currentAudio is cleared, the playback promise
\* rejects and the run fails.
AudioError(r) ==
  /\ lastTick' = "none"
  /\ audio[r] = "playing"
  /\ audio' = [audio EXCEPT ![r] = "error"]
  /\ currentAudio' = NoRun
  /\ RunFails(r)
  /\ UNCHANGED <<pipelineFrame, currentProcessingId>>

\* --------------------------------------------------------- VoiceInterface
\* `isCallActive`: set by startCall, cleared when initialize() throws and by
\* endCall.
IsCallActive == engineRef /\ initPc # "failed"

\* Faulty variant of getProcessingState that reports the speaking flag of
\* the last poll; C25_ProcessingStateIsLive must reject it.
GetCachedProcessingState ==
  [isListening |-> IF mediaRecorder = "null" THEN FALSE
                   ELSE mediaRecorder = "recording",
   isProcessing |-> isProcessing,
   isSpeaking |-> uiSpeaking,
   silenceDetected |-> silenceTimer # 0,
   interruptionDetected |-> FALSE]

\* getProcessingState(): the record built from the fields at the call
\* (currentVolume, a reading of the analyser, left out).
GetProcessingState ==
  [isListening |-> IF mediaRecorder = "null" THEN FALSE
                   ELSE mediaRecorder = "recording",
   isProcessing |-> isProcessing,
   isSpeaking |-> IF currentAudio # NoRun THEN audio[currentAudio] = "playing"
                  ELSE FALSE,
   silenceDetected |-> silenceTimer # 0,
   interruptionDetected |-> FALSE]

\* updateProcessingState: polls getProcessingState() on every frame of an
\* active call.
UpdateProcessingState ==
  /\ lastTick' = "none"
  /\ IsCallActive
  /\ uiSpeaking' = GetProcessingState.isSpeaking
  /\ UNCHANGED <<engineVars, mimeType, platform, perf, managerVars, heard, audioChunks, stopTasks, vadLoop,
                 initPc, now, run, audio, engineRef, interruptionCount>>

\* What a click on Interrupt is to an observer: the handler that ran just
\* before it interrupted a playback ("again"), or a playback is active
\* ("manual"), or neither ("click").
ClickKind ==
  IF lastTick \in {"interruption", "manual", "again"} THEN "again"
  ELSE IF IsSpeaking THEN "manual" ELSE "click"

\* interruptAgent: the Interrupt button, enabled while the polled state says
\* speaking.
InterruptAgent ==
  /\ lastTick' = ClickKind
  /\ IsCallActive
  /\ uiSpeaking
  /\ interruptionCount < MaxClicks
  /\ InterruptCurrentResponse
  /\ interruptionCount' = interruptionCount + 1
  /\ UNCHANGED <<stream, audioContext, analyser, mediaRecorder, mimeType, platform, perf, managerVars, heard,
                 isProcessing, silenceTimer, audioChunks, stopTasks, vadLoop,
                 initPc, now, run, engineRef, uiSpeaking>>

\* ------------------------------------------------------------------ spec
Next ==
  \/ \E b \in BOOLEAN : InitializeCall(b)
  \/ \E o \in {"reject", "suspended", "running", "throw"}, v \in Volumes :
       GetUserMediaReturn(o, v)
  \/ \E o \in {"reject", "running", "throw"}, v \in Volumes : ResumeReturn(o, v)
  \/ EndCall
  \/ \E v \in Volumes : VadTick(v)
  \/ TimerFire
  \/ \E size \in ChunkSizes : DataAvailable(size)
  \/ \E size \in ChunkSizes, t \in ClockReadings : RecorderStopEvent(size, t)
  \/ \E r \in Runs, ok \in BOOLEAN : B64Return(r, ok)
  \/ \E r \in Runs, res \in Texts \cup {Failure} : SttReturn(r, res)
  \/ \E r \in Runs, ok \in BOOLEAN : GptReturn(r, ok)
  \/ \E r \in Runs, o \in {"fail", "ok", "blocked"} : TtsReturn(r, o)
  \/ \E r \in Runs : AudioEnded(r)
  \/ \E r \in Runs : AudioError(r)
  \/ UpdateProcessingState
  \/ InterruptAgent

Spec == Init /\ [][Next]_vars

\* Initialization and the recorder's life on any platform, without the
\* pipeline.
MimeNext ==
  \/ \E b \in BOOLEAN : InitializeCall(b)
  \/ \E o \in {"reject", "suspended", "running", "throw"}, v \in Volumes :
       GetUserMediaReturn(o, v)
  \/ \E o \in {"reject", "running", "throw"}, v \in Volumes : ResumeReturn(o, v)
  \/ EndCall
  \/ \E v \in Volumes : VadTick(v)
  \/ TimerFire
  \/ \E size \in ChunkSizes : DataAvailable(size)

MimeSpec == MimeInit /\ [][MimeNext]_vars

\* ------------------------------------------------- latency measurement
\* The readings of performance.now() a run makes when no check ends it:
\* startTime, at sttTime, gptStartTime, at gptTime, ttsStartTime, at ttsTime
\* and at totalTime.
Readings == 7

\* Faulty variant of the record whose total runs from gptStartTime;
\* C28_TotalIsSumOfStages must reject it.
LatencyFromReplyStart(t) ==
  [stt |-> t[2] - t[1], gpt |-> t[4] - t[3], tts |-> t[6] - t[5],
   total |-> t[7] - t[3]]

\* The record handed to logProcessingMetrics, from the readings t.
Latency(t) ==
  [stt |-> t[2] - t[1], gpt |-> t[4] - t[3], tts |-> t[6] - t[5],
   total |-> t[7] - t[1]]

enginePlusUi == <<engineVars, mimeType, platform, heard, managerVars,
                  audioChunks, stopTasks, vadLoop,
                  initPc, now, run, audio, engineRef, uiSpeaking,
                  interruptionCount, lastTick>>

\* The run reads performance.now(), d units after its last reading: the
\* clock is monotonic.
PerfNow(d) ==
  /\ Len(perf.stamps) < Readings
  /\ LET last == IF perf.stamps = <<>> THEN 0 ELSE perf.stamps[Len(perf.stamps)]
     IN perf' = [perf EXCEPT !.stamps = Append(@, last + d)]
  /\ UNCHANGED enginePlusUi

\* The run logs its metrics after the last reading.
LogMetrics ==
  /\ Len(perf.stamps) = Readings
  /\ perf.metrics = NoMetrics
  /\ perf' = [perf EXCEPT !.metrics = Latency(perf.stamps)]
  /\ UNCHANGED enginePlusUi

LatencyNext ==
  \/ \E d \in 0..MaxElapsed : PerfNow(d)
  \/ LogMetrics

LatencySpec == Init /\ [][LatencyNext]_vars

\* ---------------------------------------------------------- AgentManager
\* The state of the voice engine and its component, which the manager does
\* not touch.
voiceVars == <<engineVars, mimeType, platform, perf, heard, audioChunks,
               stopTasks, vadLoop, initPc, now, run, audio, engineRef,
               uiSpeaking, interruptionCount, lastTick>>

\* The context objects routeCall has created so far.
Allocated == {o \in ContextIds : contexts[o] # Unallocated}

\* routeCall(customerId, initialMessage) up to its first await: detectIntent
\* issues generateText.
RouteCall(c) ==
  /\ pending[c].pc = "idle"
  /\ Cardinality(Allocated)
       + Cardinality({d \in Customers : pending[d].pc \in {"intent", "entities"}})
       < MaxContexts
  /\ pending' = [pending EXCEPT ![c] = [Idle EXCEPT !.pc = "intent"]]
  /\ lastCall' = <<"routeCall", c, "awaits">>
  /\ UNCHANGED <<activeContexts, contexts>>
  /\ UNCHANGED voiceVars

\* detectIntent settles (a failure counts as 'general_inquiry'): the agent
\* is selected and extractEntities issues generateObject.
IntentReturn(c, intent) ==
  /\ pending[c].pc = "intent"
  /\ pending' = [pending EXCEPT ![c] = [pc |-> "entities", ctx |-> NoContext,
                                        agent |-> SelectedAgent(intent)]]
  /\ lastCall' = <<"routeCall", c, "awaits">>
  /\ UNCHANGED <<activeContexts, contexts>>
  /\ UNCHANGED voiceVars

\* extractEntities settles in routeCall: the context is created with the
\* initial message as its history and stored under the customer.
RouteEntitiesReturn(c, found) ==
  /\ pending[c].pc = "entities"
  /\ LET o == CHOOSE x \in ContextIds \ Allocated :
                \A y \in ContextIds \ Allocated : x <= y
     IN /\ contexts' = [contexts EXCEPT ![o] =
                          [customerId |-> c, currentAgent |-> pending[c].agent,
                           entities |-> found, history |-> 1, saves |-> 0]]
        /\ activeContexts' = [activeContexts EXCEPT ![c] = o]
  /\ pending' = [pending EXCEPT ![c] = Idle]
  /\ lastCall' = <<"routeCall", c, "returned">>
  /\ UNCHANGED voiceVars

\* Faulty variant of processMessage that creates a context for an unknown
\* customer; C38_UnknownCustomerIsRejected must reject it.
ProcessMessageCreatesContext(c) ==
  /\ pending[c].pc = "idle"
  /\ IF activeContexts[c] = NoContext
       THEN /\ ContextIds \ Allocated # {}
            /\ LET o == CHOOSE x \in ContextIds \ Allocated : TRUE
               IN /\ contexts' = [contexts EXCEPT ![o] =
                                    [customerId |-> c, currentAgent |-> "consultation",
                                     entities |-> {}, history |-> 1, saves |-> 0]]
                  /\ activeContexts' = [activeContexts EXCEPT ![c] = o]
                  /\ pending' = [pending EXCEPT ![c] =
                                   [pc |-> "respond", ctx |-> o, agent |-> "none"]]
            /\ lastCall' = <<"processMessage", c, "awaits">>
       ELSE /\ contexts[activeContexts[c]].history < MaxHistory
            /\ contexts' = [contexts EXCEPT ![activeContexts[c]].history = @ + 1]
            /\ pending' = [pending EXCEPT ![c] =
                             [pc |-> "respond", ctx |-> activeContexts[c],
                              agent |-> "none"]]
            /\ lastCall' = <<"processMessage", c, "awaits">>
            /\ UNCHANGED activeContexts
  /\ UNCHANGED voiceVars

\* processMessage(customerId, message) up to its first await: without a
\* context it throws; otherwise the message is pushed to the history and
\* generateAgentResponse issues generateText.
ProcessMessage(c) ==
  /\ pending[c].pc = "idle"
  /\ IF activeContexts[c] = NoContext
       THEN /\ lastCall' = <<"processMessage", c, "threw">>
            /\ UNCHANGED <<activeContexts, contexts, pending>>
       ELSE /\ contexts[activeContexts[c]].history < MaxHistory
            /\ contexts' = [contexts EXCEPT ![activeContexts[c]].history = @ + 1]
            /\ pending' = [pending EXCEPT ![c] =
                             [pc |-> "respond", ctx |-> activeContexts[c],
                              agent |-> "none"]]
            /\ lastCall' = <<"processMessage", c, "awaits">>
            /\ UNCHANGED activeContexts
  /\ UNCHANGED voiceVars

\* generateAgentResponse settles (a failure yields the apology text):
\* extractEntities issues generateObject.
ResponseReturn(c) ==
  /\ pending[c].pc = "respond"
  /\ pending' = [pending EXCEPT ![c].pc = "extract"]
  /\ lastCall' = <<"processMessage", c, "awaits">>
  /\ UNCHANGED <<activeContexts, contexts>>
  /\ UNCHANGED voiceVars

\* extractEntities settles in processMessage: the entities are merged into
\* the context the call holds, and handleTaskCompletion starts the save of
\* the agent's type when its entities are known, else the call returns.
ExtractReturn(c, found) ==
  /\ pending[c].pc = "extract"
  /\ LET o == pending[c].ctx
         entities == contexts[o].entities \cup found
         type == contexts[o].currentAgent
         next == IF type = "booking" /\ RequiredEntities \subseteq entities
                   THEN "calendar"
                 ELSE IF type = "consultation"
                         /\ ConsultationEntities \subseteq entities
                   THEN "sheets"
                 ELSE "idle"
     IN /\ contexts' = [contexts EXCEPT ![o].entities = entities]
        /\ pending' = [pending EXCEPT ![c] =
                         IF next = "idle" THEN Idle ELSE [@ EXCEPT !.pc = next]]
        /\ lastCall' = <<"processMessage", c,
                        IF next = "idle" THEN "returned" ELSE "awaits">>
  /\ UNCHANGED activeContexts
  /\ UNCHANGED voiceVars

\* saveToGoogleCalendar settles: saveAppointmentToDatabase issues
\* blink.db.appointments.create, one more appointment record of the context.
CalendarReturn(c) ==
  /\ pending[c].pc = "calendar"
  /\ contexts' = [contexts EXCEPT ![pending[c].ctx].saves =
                    IF @ < MaxSaves THEN @ + 1 ELSE @]
  /\ pending' = [pending EXCEPT ![c].pc = "appointments"]
  /\ lastCall' = <<"processMessage", c, "awaits">>
  /\ UNCHANGED activeContexts
  /\ UNCHANGED voiceVars

\* saveToGoogleSheets settles: saveConsultationToDatabase issues
\* blink.db.consultations.create.
SheetsReturn(c) ==
  /\ pending[c].pc = "sheets"
  /\ pending' = [pending EXCEPT ![c].pc = "consultations"]
  /\ lastCall' = <<"processMessage", c, "awaits">>
  /\ UNCHANGED <<activeContexts, contexts>>
  /\ UNCHANGED voiceVars

\* The create call settles (a failure is logged): processMessage returns
\* the response.
DatabaseReturn(c) ==
  /\ pending[c].pc \in {"appointments", "consultations"}
  /\ pending' = [pending EXCEPT ![c] = Idle]
  /\ lastCall' = <<"processMessage", c, "returned">>
  /\ UNCHANGED <<activeContexts, contexts>>
  /\ UNCHANGED voiceVars

\* transferCall(customerId, targetAgentType, reason): without a context it
\* throws; otherwise the context's agent is replaced and a marker is pushed
\* to its history.
TransferCall(c, target) ==
  /\ IF activeContexts[c] = NoContext
       THEN /\ lastCall' = <<"transferCall", c, "threw">>
            /\ UNCHANGED contexts
       ELSE /\ contexts[activeContexts[c]].history < MaxHistory
            /\ contexts' = [contexts EXCEPT
                              ![activeContexts[c]].currentAgent = target,
                              ![activeContexts[c]].history = @ + 1]
            /\ lastCall' = <<"transferCall", c, "returned">>
  /\ UNCHANGED <<activeContexts, pending>>
  /\ UNCHANGED voiceVars

\* AgentManager.endCall(customerId): the customer's entry is deleted.
ManagerEndCall(c) ==
  /\ activeContexts' = [activeContexts EXCEPT ![c] = NoContext]
  /\ lastCall' = <<"endCall", c, "returned">>
  /\ UNCHANGED <<contexts, pending>>
  /\ UNCHANGED voiceVars

ManagerNext ==
  \/ \E c \in Customers : RouteCall(c)
  \/ \E c \in Customers, intent \in Intents : IntentReturn(c, intent)
  \/ \E c \in Customers, found \in EntitySets : RouteEntitiesReturn(c, found)
  \/ \E c \in Customers : ProcessMessage(c)
  \/ \E c \in Customers : ResponseReturn(c)
  \/ \E c \in Customers, found \in EntitySets : ExtractReturn(c, found)
  \/ \E c \in Customers : CalendarReturn(c)
  \/ \E c \in Customers : SheetsReturn(c)
  \/ \E c \in Customers : DatabaseReturn(c)
  \/ \E c \in Customers, target \in AgentTypes : TransferCall(c, target)
  \/ \E c \in Customers : ManagerEndCall(c)

ManagerSpec == Init /\ [][ManagerNext]_vars

\* The calls to the reply-generation and speech services settle: each
\* promise is resolved or rejected in the end.
FairSpec ==
  /\ Spec
  /\ \A r \in Runs :
       /\ WF_vars(\E ok \in BOOLEAN : GptReturn(r, ok))
       /\ WF_vars(\E o \in {"fail", "ok", "blocked"} : TtsReturn(r, o))

\* Every awaited promise of a run settles and every playing audio ends or
\* fails, unless it is paused first.
SettleSpec ==
  /\ FairSpec
  /\ \A r \in Runs :
       /\ WF_vars(\E ok \in BOOLEAN : B64Return(r, ok))
       /\ WF_vars(\E res \in Texts \cup {Failure} : SttReturn(r, res))
       /\ WF_vars(AudioEnded(r) \/ AudioError(r))

\* The detection loop keeps sampling as long as it is scheduled, an armed
\* silence timer fires unless it is cleared first, and the task of a
\* recorder's stop event is delivered.
EndpointSpec ==
  /\ Spec
  /\ WF_vars(\E v \in Volumes : VadTick(v))
  /\ WF_vars(TimerFire)
  /\ WF_vars(\E size \in ChunkSizes, t \in ClockReadings :
               RecorderStopEvent(size, t))

\* ================================================================ claims
InFlight == {"b64", "stt", "gpt", "tts", "play"}

\* `a playback handle exists and is unpaused`, stated on the fields.
PlaybackActive == currentAudio # NoRun /\ audio[currentAudio] = "playing"

\* ------------------------------------------------------------------- C1
\* C1: a run that is no longer the current generation when its STT call or
\* its reply-generation call returns issues no later external call, starts no
\* playback and records no latency: it has ended, and a run stale at the STT
\* return never called reply generation.
C1_StaleRunStops ==
  \A r \in Runs :
    /\ run[r].staleAt = "stt" =>
         /\ run[r].pc = "done"
         /\ run[r].gpt = 0 /\ run[r].tts = 0 /\ run[r].play = 0 /\ run[r].lat = 0
    /\ run[r].staleAt = "gpt" =>
         /\ run[r].pc = "done"
         /\ run[r].tts = 0 /\ run[r].play = 0 /\ run[r].lat = 0

\* One run found stale at its STT return and another at its reply-generation
\* return, one of them superseded by a newer run and one cancelled.
C1_Witness ==
  \E r1, r2 \in Runs :
    /\ run[r1].staleAt = "stt" /\ run[r2].staleAt = "gpt"
    /\ {run[r1].staleBy, run[r2].staleBy} \ {NoId} # {}
    /\ NoId \in {run[r1].staleBy, run[r2].staleBy}

\* ------------------------------------------------------------------- C2
\* C2: a run that stops being the current generation while it awaits its TTS
\* call, here because a newer utterance's run became current, starts no
\* playback when the TTS result arrives.
C2_NoPlaybackAfterStaleTts ==
  \A r \in Runs :
    (run[r].staleAt = "tts" /\ run[r].staleBy # NoId) => run[r].play = 0

\* A run of a call still in progress was superseded by a newer run during its
\* TTS call and started its playback all the same.
C2_FailingState ==
  /\ engineRef /\ analyser /\ vadLoop
  /\ \E r \in Runs :
       /\ run[r].staleAt = "tts" /\ run[r].staleBy > run[r].id
       /\ run[r].play = 1 /\ audio[r] = "playing"

\* ------------------------------------------------------------------- C3
\* C3: on a tick whose volume is above 0.05 while a playback handle exists
\* and is unpaused, in that same tick the playback is paused, the handle is
\* cleared and the current generation is invalidated, so that no run in
\* flight is current any more.
C3_SpeechDuringPlaybackInterrupts ==
  [][\A v \in Volumes :
       (v > INTERRUPTION_THRESHOLD /\ analyser /\ PlaybackActive /\ VadTick(v))
       => /\ audio'[currentAudio] = "paused"
          /\ currentAudio' = NoRun
          /\ currentProcessingId' = NoId
          /\ \A r \in Runs :
               run'[r].pc \in InFlight => currentProcessingId' # run'[r].id]_vars

\* A speech tick has just paused a playback while another run awaits one of
\* its calls.
C3_Witness ==
  /\ lastTick = "interruption"
  /\ \E r1, r2 \in Runs :
       /\ run[r1].pc = "play" /\ audio[r1] = "paused"
       /\ run[r2].pc \in {"stt", "gpt", "tts"}

\* ------------------------------------------------------------------- C4
\* C4: in every reachable state at most one synthesized audio is playing.
C4_AtMostOnePlayback ==
  Cardinality({r \in Runs : audio[r] = "playing"}) <= 1

\* Two audios are playing during a call still in progress.
C4_FailingState ==
  /\ engineRef /\ analyser /\ vadLoop
  /\ \A r \in Runs : audio[r] = "playing"

\* ------------------------------------------------------------------- C5
\* C5, as claimed: a tick that detects speech (volume above 0.05) while a run
\* is in flight at any stage invalidates that run in the same tick, whether
\* or not playback is active.
C5_NewestSpeechWins ==
  [][\A v \in Volumes :
       (v > INTERRUPTION_THRESHOLD /\ analyser /\ VadTick(v))
       => \A r \in Runs :
            run[r].pc \in InFlight => currentProcessingId' # run[r].id]_vars

\* C5, as the code has it: a tick that detects speech invalidates a run in
\* flight exactly when a playback handle exists and is unpaused; without
\* active playback a run that was current is still current after the tick.
C5_SpeechInvalidatesOnlyDuringPlayback ==
  [][\A v \in Volumes :
       (v > INTERRUPTION_THRESHOLD /\ analyser /\ VadTick(v))
       => \A r \in Runs :
            run[r].pc \in InFlight =>
              ((currentProcessingId' = run[r].id)
                 <=> (currentProcessingId = run[r].id /\ ~PlaybackActive))]_vars

\* A speech tick has just passed while a run awaits its STT or
\* reply-generation call, and the run is still the current generation.
C5_Witness ==
  /\ lastTick = "speech"
  /\ \E r \in Runs :
       run[r].pc \in {"stt", "gpt"} /\ currentProcessingId = run[r].id

\* ------------------------------------------------------------------- C6
\* C6: a speech tick (volume above 0.05) while no unpaused playback exists
\* triggers no interruption: the current generation id and the playback
\* handle are unchanged, and of the program's state only the silence timer
\* and the recorder may change.
C6_SpeechWithoutPlaybackNoInterruption ==
  [][\A v \in Volumes :
       (v > INTERRUPTION_THRESHOLD /\ analyser /\ ~PlaybackActive /\ VadTick(v))
       => /\ currentProcessingId' = currentProcessingId
          /\ currentAudio' = currentAudio
          /\ UNCHANGED <<stream, audioContext, analyser, isProcessing, audioChunks,
                         stopTasks, vadLoop, initPc, run, audio, engineRef,
                         uiSpeaking, interruptionCount>>]_vars

\* A speech tick without playback has just passed during a current run's TTS
\* call, the recorder recording and the silence timer cleared.
C6_Witness ==
  /\ lastTick = "speech"
  /\ mediaRecorder = "recording" /\ silenceTimer = 0
  /\ \E r \in Runs : run[r].pc = "tts" /\ currentProcessingId = run[r].id

\* ------------------------------------------------------------------- C7
\* C7: a latency record is produced for a run only while the run's id is the
\* current generation, and at most once per run.
C7_LatencyOnlyWhileCurrent ==
  \A r \in Runs : run[r].latStale = 0 /\ run[r].lat <= 1

\* During a call still in progress a run has recorded its latency while a
\* newer run was the current generation.
C7_FailingState ==
  /\ engineRef /\ analyser /\ vadLoop
  /\ \E r \in Runs :
       /\ run[r].pc = "done" /\ run[r].lat = 1 /\ run[r].latStale = 1
       /\ currentProcessingId > run[r].id

\* ------------------------------------------------------------------- C8
\* C8: a tick that detects speech during active playback increments the
\* interruption counter by exactly 1, and no other tick changes the counter.
C8_VadInterruptionCounted ==
  [][\A v \in Volumes :
       VadTick(v) =>
         interruptionCount' =
           interruptionCount
             + (IF v > INTERRUPTION_THRESHOLD /\ analyser /\ PlaybackActive
                  THEN 1 ELSE 0)]_vars

\* A tick has just interrupted a playback and the counter is still 0.
C8_FailingState ==
  /\ lastTick = "interruption"
  /\ interruptionCount = 0
  /\ \E r \in Runs : run[r].pc = "play" /\ audio[r] = "paused"

\* ------------------------------------------------------------------- C9
\* C9: when the transcription is empty, whitespace only or shorter than 3
\* characters, the run ends silently: no reply-generation call, no TTS call,
\* no playback, no latency record and no error, at that return or later.
C9_ShortTextEndsSilently ==
  [][\A r \in Runs :
       /\ \A t \in Texts :
            ( /\ \/ t = <<>>
                 \/ \A i \in 1..Len(t) : t[i] = " "
                 \/ Len(t) < MIN_TEXT_LENGTH
              /\ SttReturn(r, t) )
            => /\ run'[r].pc = "done"
               /\ run'[r].gpt = 0 /\ run'[r].tts = 0 /\ run'[r].play = 0
               /\ run'[r].lat = 0 /\ run'[r].err = 0
               /\ UNCHANGED <<audio, currentAudio>>
       /\ run[r].pc = "done" => run'[r] = run[r]]_vars

\* A run that was current when its transcription came back short, and ended
\* with one STT call and nothing else.
C9_Witness ==
  \E r \in Runs :
    /\ run[r].pc = "done" /\ run[r].staleAt = "none"
    /\ run[r].stt = 1 /\ run[r].gpt = 0 /\ run[r].err = 0

\* ------------------------------------------------------------------ C10
\* C10: when the STT, reply-generation or TTS call of a run fails, or its
\* playback fails, the run logs the error and ends: the call is not issued
\* again, no later call is issued and no latency is recorded, then or later;
\* the sampling loop, the recorder and the silence timer are untouched and
\* the processing flag is cleared, so that a later utterance starts a run as
\* usual.
C10_FailureIsContained ==
  [][\A r \in Runs :
       /\ ( \/ SttReturn(r, Failure)
            \/ GptReturn(r, FALSE)
            \/ TtsReturn(r, "fail")
            \/ TtsReturn(r, "blocked")
            \/ AudioError(r) )
          => /\ run'[r].pc = "done"
             /\ run'[r].err = run[r].err + 1
             /\ run'[r].stt = run[r].stt /\ run'[r].gpt = run[r].gpt
             /\ run'[r].tts = run[r].tts /\ run'[r].play = run[r].play
             /\ run'[r].lat = run[r].lat
             /\ \A q \in Runs \ {r} : run'[q] = run[q]
             /\ isProcessing' = FALSE
             /\ UNCHANGED <<vadLoop, analyser, stream, audioContext, mediaRecorder,
                            silenceTimer, audioChunks, stopTasks,
                            currentProcessingId>>
       /\ run[r].pc = "done" => run'[r] = run[r]]_vars

\* A run has failed, the sampling loop is still scheduled, and a later
\* utterance went through all stages and recorded its latency.
C10_Witness ==
  /\ vadLoop /\ analyser
  /\ \E r1, r2 \in Runs :
       /\ run[r1].pc = "done" /\ run[r1].err = 1 /\ run[r1].lat = 0
       /\ run[r2].id > run[r1].id
       /\ run[r2].pc = "done" /\ run[r2].err = 0
       /\ run[r2].stt = 1 /\ run[r2].gpt = 1 /\ run[r2].tts = 1
       /\ run[r2].play = 1 /\ run[r2].lat = 1

C12_StagesAreSequential ==
  \A r \in Runs :
    /\ run[r].pc \in {"idle", "b64"} =>
         run[r].stt = 0 /\ run[r].gpt = 0 /\ run[r].tts = 0 /\ run[r].play = 0
    /\ run[r].pc = "stt" =>
         run[r].stt = 1 /\ run[r].gpt = 0 /\ run[r].tts = 0 /\ run[r].play = 0
    /\ run[r].pc = "gpt" =>
         run[r].stt = 1 /\ run[r].gpt = 1 /\ run[r].tts = 0 /\ run[r].play = 0
    /\ run[r].pc = "tts" =>
         run[r].stt = 1 /\ run[r].gpt = 1 /\ run[r].tts = 1 /\ run[r].play = 0
    /\ run[r].pc = "play" =>
         run[r].stt = 1 /\ run[r].gpt = 1 /\ run[r].tts = 1 /\ run[r].play = 1
    /\ run[r].play <= run[r].tts /\ run[r].tts <= run[r].gpt
    /\ run[r].gpt <= run[r].stt /\ run[r].stt <= 1
    /\ audio[r] # "none" => run[r].tts = 1

\* One run is playing its reply while another awaits its reply-generation
\* call.
C12_Witness ==
  \E r1, r2 \in Runs :
    /\ run[r1].pc = "play" /\ run[r1].play = 1
    /\ run[r2].pc = "gpt" /\ run[r2].tts = 0

\* ------------------------------------------------------------------ C13
\* C13: at any instant at most one run is in flight, between its start and
\* its end.
C13_AtMostOneRunInFlight ==
  Cardinality({r \in Runs : run[r].pc \in InFlight}) <= 1

\* During a call still in progress a second utterance has started its run
\* while the first run awaits its reply-generation call.
C13_FailingState ==
  /\ engineRef /\ analyser /\ vadLoop
  /\ \E r1, r2 \in Runs :
       /\ run[r1].pc = "gpt" /\ run[r2].pc = "b64"
       /\ run[r2].id > run[r1].id
       /\ currentProcessingId = run[r2].id /\ isProcessing

C16_HysteresisBandChangesNothing ==
  [][\A v \in Volumes :
       ( /\ SILENCE_THRESHOLD <= v /\ v <= INTERRUPTION_THRESHOLD
         /\ analyser /\ VadTick(v) )
       => UNCHANGED <<stream, audioContext, analyser, mediaRecorder, isProcessing,
                      silenceTimer, currentProcessingId, currentAudio, audioChunks,
                      stopTasks, vadLoop, initPc, run, audio, engineRef,
                      uiSpeaking, interruptionCount>>]_vars

\* A reading in the band has just been taken with the timer pending, the
\* recorder recording and a reply playing.
C16_Witness ==
  /\ lastTick = "band"
  /\ silenceTimer # 0 /\ mediaRecorder = "recording"
  /\ PlaybackActive /\ currentProcessingId # NoId

\* ------------------------------------------------------------------ C17
\* C17: the silence timer is armed only while the recorder is recording: a
\* sample below 0.01 that arrives while the recorder is inactive arms no
\* timer, so that a pending timer always belongs to a recording.
C17_TimerArmedOnlyWhileRecording ==
  [][\A v \in Volumes :
       ( /\ v < SILENCE_THRESHOLD /\ mediaRecorder = "inactive"
         /\ silenceTimer = 0 /\ analyser /\ VadTick(v) )
       => silenceTimer' = 0]_vars

\* A silent reading has just armed the timer on an engine that has not
\* recorded anything: silenceDetected is reported without speech.
C17_FailingState ==
  /\ lastTick = "silence"
  /\ silenceTimer # 0 /\ mediaRecorder = "inactive"
  /\ stopTasks = 0 /\ audioChunks = <<>>
  /\ \A r \in Runs : run[r].pc = "idle"

\* ------------------------------------------------------------------ C18
\* C18: each recorder stop hands exactly one utterance to the pipeline, made
\* of every non-empty chunk received since the buffer was last handed off, in
\* arrival order, and empties the buffer, so that no chunk of it reaches a
\* later utterance; a stop with no chunk gathered starts no run and leaves
\* the current generation as it is. Once every stop has been delivered and
\* the recorder is not recording, no chunk is left over.
C18_StopHandsOffOneUtterance ==
  /\ [][\A size \in ChunkSizes : \A t \in ClockReadings :
          RecorderStopEvent(size, t) =>
            LET n == Len(audioChunks) + (IF size > 0 THEN 1 ELSE 0)
            IN /\ audioChunks' = <<>>
               /\ stopTasks' = stopTasks - 1
               /\ IF n = 0
                    THEN /\ run' = run
                         /\ currentProcessingId' = currentProcessingId
                         /\ isProcessing' = isProcessing
                    ELSE \E r \in Runs :
                           /\ run[r].pc = "idle" /\ run'[r].pc = "b64"
                           /\ run'[r].blob = [i \in 1..n |-> i]
                           /\ run'[r].id = t /\ currentProcessingId' = t
                           /\ \A q \in Runs \ {r} : run'[q] = run[q]]_vars
  /\ [](/\ audioChunks = [i \in 1..Len(audioChunks) |-> i]
        /\ (mediaRecorder # "recording" /\ stopTasks = 0) => audioChunks = <<>>)

\* A second utterance has just been handed off with both its chunks, the one
\* buffered during the recording and the final one, and the buffer is empty.
C18_Witness ==
  /\ audioChunks = <<>>
  /\ \E r1, r2 \in Runs :
       /\ run[r1].pc \notin {"idle", "b64"}
       /\ run[r2].pc = "b64" /\ run[r2].blob = <<1, 2>>

\* ------------------------------------------------------------------ C19
\* C19: a speech tick that arrives while the recorder is recording does not
\* restart the recorder (no stop is queued, it keeps recording) and leaves
\* the chunks gathered so far in the buffer.
C19_StartIsIdempotent ==
  [][\A v \in Volumes :
       ( /\ v > INTERRUPTION_THRESHOLD /\ analyser
         /\ mediaRecorder = "recording" /\ VadTick(v) )
       => /\ mediaRecorder' = "recording"
          /\ stopTasks' = stopTasks
          /\ audioChunks' = audioChunks]_vars

\* A speech tick has just passed during a recording that has a chunk in the
\* buffer.
C19_Witness ==
  /\ lastTick \in {"speech", "interruption"}
  /\ mediaRecorder = "recording" /\ stopTasks = 0
  /\ audioChunks # <<>>

\* ------------------------------------------------------------------ C20
\* The engine as cleanup() leaves it.
CleanedUp ==
  /\ ~stream /\ audioContext = "null" /\ ~analyser /\ mediaRecorder = "null"
  /\ currentAudio = NoRun /\ silenceTimer = 0
  /\ ~isProcessing /\ currentProcessingId = NoId

\* C20: cleanup() can be called in every state of an engine, also one on
\* which initialize() has acquired nothing yet; it leaves the engine
\* released, and called on an engine that was just cleaned up it changes
\* nothing: no recorder stop is queued, no audio is paused, no field changes.
C20_CleanupIsIdempotent ==
  /\ [][(EndCall \/ InitFails) =>
          /\ CleanedUp'
          /\ stopTasks' = stopTasks + (IF mediaRecorder = "recording" THEN 1 ELSE 0)
          /\ CleanedUp => UNCHANGED <<engineVars, stopTasks, audio, audioChunks,
                                      run, vadLoop>>]_vars
  /\ [](engineRef => ENABLED EndCall)

\* initialize() has failed and the call was ended: cleanup() has run twice,
\* the second time on a cleaned-up engine.
C20_Witness ==
  /\ initPc = "failed" /\ ~engineRef
  /\ CleanedUp

C22_FailedInitializeHoldsNothing ==
  [][\A v \in Volumes :
       ( \/ InitializeCall(FALSE)
         \/ GetUserMediaReturn("reject", v) \/ GetUserMediaReturn("throw", v)
         \/ ResumeReturn("reject", v) \/ ResumeReturn("throw", v) )
       => /\ initPc' = "failed" /\ ~IsCallActive'
          /\ CleanedUp' /\ ~vadLoop'
          /\ stopTasks' = stopTasks]_vars

\* initialize() has just failed at or after resume(), the stream held until
\* then, and the engine holds nothing.
C22_Witness ==
  /\ lastTick = "late failure" /\ initPc = "failed" /\ engineRef
  /\ CleanedUp /\ ~vadLoop

\* ------------------------------------------------------------------ C23
\* The positions of the preference list whose type the platform reports as
\* supported.
SupportedPositions == {i \in 1..Len(mimeTypes) : mimeTypes[i] \in platform.supported}

\* C23: on every platform getSupportedMimeType() returns the supported type
\* that stands first in the preference list, and the default when the
\* platform supports none of the list; initialize() does not fail on the
\* encoding: once the context runs it completes with a recorder, whose type
\* is the selected one, or the default when the constructor refused the
\* selected options or nothing was selected.
C23_FirstSupportedEncoding ==
  /\ [](LET chosen == GetSupportedMimeType(platform.supported, 1)
        IN IF SupportedPositions = {}
             THEN chosen = DefaultMimeType
             ELSE \E i \in SupportedPositions :
                    /\ chosen = mimeTypes[i]
                    /\ \A j \in SupportedPositions : i <= j)
  /\ [][\A v \in Volumes :
          ( \/ GetUserMediaReturn("running", v)
            \/ (ResumeReturn("running", v) /\ audioContext # "null") )
          => /\ initPc' = "done" /\ mediaRecorder' # "null"
             /\ mimeType' =
                  IF platform.acceptsOptions
                    THEN GetSupportedMimeType(platform.supported, 1)
                    ELSE DefaultMimeType]_vars

\* initialize() has completed on a platform that supports the third, the
\* fifth and the sixth type of the list only, with a recorder of the third.
C23_Witness ==
  /\ initPc = "done" /\ mediaRecorder # "null"
  /\ platform.supported = {"audio/mp4", "audio/wav", "audio/mpeg"}
  /\ mimeType = "audio/mp4"

\* ------------------------------------------------------------------ C24
\* What the manual override does to the engine and to the component's
\* counter: interruptAgent without the button's guards.
ManualOverride ==
  /\ InterruptCurrentResponse
  /\ interruptionCount' = interruptionCount + 1

\* C24: from a state with active playback, a tick that detects speech leaves
\* the playback handle, the current generation and the interruption count as
\* the manual override would leave them from that state.
C24_ManualEqualsVoiceInterruption ==
  [][\A v \in Volumes :
       \A h \in Runs \cup {NoRun}, g \in 0..(MaxRuns + 2), c \in 0..(MaxClicks + 1) :
         ( /\ v > INTERRUPTION_THRESHOLD /\ analyser /\ PlaybackActive
           /\ VadTick(v)
           /\ currentAudio' = h /\ currentProcessingId' = g
           /\ interruptionCount' = c )
         => ENABLED ( /\ ManualOverride
                      /\ currentAudio' = h /\ currentProcessingId' = g
                      /\ interruptionCount' = c )]_vars

\* The first click on Interrupt has just stopped a playback and is counted;
\* the other playback, which speech had stopped before, was not.
C24_FailingState ==
  /\ engineRef /\ analyser /\ vadLoop
  /\ lastTick = "manual" /\ interruptionCount = 1
  /\ \A r \in Runs : audio[r] = "paused"

\* The part of C24 that holds: both ways of interrupting leave the handle and
\* the current generation cleared.
C24_HandleAndGenerationAgree ==
  [][\A v \in Volumes :
       \A h \in Runs \cup {NoRun}, g \in 0..(MaxRuns + 2) :
         ( /\ v > INTERRUPTION_THRESHOLD /\ analyser /\ PlaybackActive
           /\ VadTick(v)
           /\ currentAudio' = h /\ currentProcessingId' = g )
         => ENABLED ( /\ ManualOverride
                      /\ currentAudio' = h /\ currentProcessingId' = g )]_vars

\* ------------------------------------------------------------------ C25
\* C25: the record getProcessingState() builds says listening exactly when
\* the recorder is recording, speaking exactly when a playback handle exists
\* and its audio is unpaused, and silenceDetected exactly when the silence
\* timer is pending; a poll stores what holds at that moment and changes
\* nothing of the engine.
C25_ProcessingStateIsLive ==
  /\ [](/\ GetProcessingState.isListening <=> (mediaRecorder = "recording")
        /\ GetProcessingState.isSpeaking <=> PlaybackActive
        /\ GetProcessingState.silenceDetected <=> (silenceTimer # 0))
  /\ [][UpdateProcessingState =>
          /\ uiSpeaking' = PlaybackActive
          /\ UNCHANGED <<engineVars, mimeType, audio, run, audioChunks, stopTasks,
                         vadLoop, initPc, now, engineRef>>]_vars

\* A poll has reported speaking, and the reply is still playing, the
\* recorder recording and the silence timer pending.
C25_Witness ==
  /\ uiSpeaking /\ PlaybackActive
  /\ mediaRecorder = "recording" /\ silenceTimer # 0
  /\ GetProcessingState.isListening /\ GetProcessingState.silenceDetected

\* ------------------------------------------------------------------ C26
\* C26: the ids of successive runs are strictly increasing: a run started
\* later has a greater id, so no two runs share one, and a started run whose
\* id is not the current generation is older than the current generation.
C26_IdsStrictlyIncrease ==
  \A r1, r2 \in Runs :
    (r1 < r2 /\ run[r2].pc # "idle") => run[r1].id < run[r2].id

\* Two utterances were handed off within one millisecond, the one the timer
\* stopped and the one cleanup() stopped right after: both runs are in
\* flight with the same id, and the older one passes for the current
\* generation.
C26_FailingState ==
  \E r1, r2 \in Runs :
    /\ r1 < r2 /\ run[r1].id = run[r2].id
    /\ run[r1].pc = "gpt" /\ run[r2].pc \in InFlight
    /\ currentProcessingId = run[r1].id

\* What the clock does guarantee: a run started later has no smaller id.
C26_IdsNeverDecrease ==
  \A r1, r2 \in Runs :
    (r1 < r2 /\ run[r2].pc # "idle") => run[r1].id <= run[r2].id

\* ------------------------------------------------------------------ C27
\* C27: a detectActivity callback that finds no analyser, whatever the
\* reading would be, starts no recorder, arms no timer, interrupts nothing
\* and changes no other state; it schedules no further callback. No callback
\* is ever scheduled before initialize() has created the analyser.
C27_NoSamplerNoTransitions ==
  /\ [][\A v \in Volumes :
          (~analyser /\ VadTick(v))
          => /\ ~vadLoop'
             /\ UNCHANGED <<engineVars, mimeType, audio, run, audioChunks,
                            stopTasks, initPc, engineRef, uiSpeaking,
                            interruptionCount>>]_vars
  /\ [](initPc # "done" => ~vadLoop)

\* After cleanup() the scheduled callback has found no analyser and the loop
\* has ended, with no recorder and no timer, while a reply is playing.
C27_Witness ==
  /\ initPc = "done" /\ ~analyser /\ ~vadLoop
  /\ mediaRecorder = "null" /\ silenceTimer = 0
  /\ \E r \in Runs : audio[r] = "playing"

\* ------------------------------------------------------------------ C28
\* The time between the end of one stage's measurement and the start of the
\* next, over the readings t: from sttTime to gptStartTime, from gptTime to
\* ttsStartTime and from ttsTime to totalTime.
Gaps(t) == (t[3] - t[2]) + (t[5] - t[4]) + (t[7] - t[6])

\* C28: in every latency record the total is the sum of the three stage
\* latencies plus the time that passed between the measurements, which is
\* never negative: the total is at least the sum and exceeds it by exactly
\* those gaps.
C28_TotalIsSumOfStages ==
  perf.metrics # NoMetrics =>
    /\ perf.metrics.total
         = perf.metrics.stt + perf.metrics.gpt + perf.metrics.tts + Gaps(perf.stamps)
    /\ Gaps(perf.stamps) >= 0
    /\ perf.metrics.stt >= 0 /\ perf.metrics.gpt >= 0 /\ perf.metrics.tts >= 0

\* A record was logged for a run whose three stages each took time and whose
\* clock moved between two measurements: the total exceeds the sum.
C28_Witness ==
  /\ perf.metrics # NoMetrics
  /\ perf.metrics.stt > 0 /\ perf.metrics.gpt > 0 /\ perf.metrics.tts > 0
  /\ perf.metrics.total > perf.metrics.stt + perf.metrics.gpt + perf.metrics.tts

\* ------------------------------------------------------------------ C29
\* endCall has run cleanup() on the engine of this call.
CallEnded == ~engineRef /\ initPc # "idle"

\* C29: once cleanup() has returned no step issues an STT, reply-generation
\* or TTS call or starts a playback, whether for a run that was in flight
\* when cleanup() was called or for the recording cleanup() stopped.
C29_NoCallsAfterCleanup ==
  [][CallEnded =>
       \A r \in Runs :
         /\ run'[r].stt = run[r].stt /\ run'[r].gpt = run[r].gpt
         /\ run'[r].tts = run[r].tts /\ run'[r].play = run[r].play]_vars

\* The call was ended during a recording; the utterance cleanup() stopped was
\* handed off afterwards, went through all three services as the current
\* generation, and its reply is playing on the released engine.
C29_FailingState ==
  /\ CallEnded /\ initPc = "done" /\ ~analyser /\ ~stream
  /\ \E r \in Runs :
       /\ run[r].pc = "play" /\ audio[r] = "playing" /\ currentAudio = r
       /\ run[r].staleAt = "none" /\ currentProcessingId = run[r].id
       /\ \A q \in Runs \ {r} : run[q].pc = "idle"

\* ------------------------------------------------------------------ C30
\* C30: when the call was ended, and so cleanup() called, while initialize()
\* awaited getUserMedia or resume(), the step at which initialize() settles
\* leaves the engine without stream, context, recorder and analyser and with
\* no detectActivity callback scheduled.
C30_CleanupDuringInitializeReleases ==
  [][\A v \in Volumes :
       ( /\ CallEnded
         /\ \/ \E o \in {"reject", "running", "throw"} : GetUserMediaReturn(o, v)
            \/ \E o \in {"reject", "running", "throw"} : ResumeReturn(o, v) )
       => /\ ~stream' /\ audioContext' = "null"
          /\ mediaRecorder' = "null" /\ ~analyser' /\ ~vadLoop']_vars

\* The call was ended while getUserMedia was pending; initialize() has
\* completed afterwards and the engine nobody refers to holds the microphone
\* and is recording.
C30_FailingState ==
  /\ CallEnded /\ initPc = "done"
  /\ stream /\ audioContext = "running" /\ analyser /\ vadLoop
  /\ mediaRecorder = "recording"

\* The part of C30 that holds: ended while resume() was pending, initialize()
\* fails on the closed context and the engine holds nothing.
C30_CleanupDuringResumeReleases ==
  [][\A v \in Volumes :
       ( /\ CallEnded /\ audioContext = "null"
         /\ \E o \in {"reject", "running", "throw"} : ResumeReturn(o, v) )
       => /\ ~stream' /\ audioContext' = "null"
          /\ mediaRecorder' = "null" /\ ~analyser' /\ ~vadLoop'
          /\ initPc' = "failed"]_vars

\* ------------------------------------------------------------------ C31
\* C31: every run that has started ends, its finally block reached, given
\* that each awaited call settles and each playing audio ends or fails
\* unless it is interrupted; so does a run whose playback was interrupted.
C31_EveryRunEnds ==
  \A r \in Runs : (run[r].pc \in InFlight) ~> (run[r].pc = "done")

\* During a call still in progress the user has just clicked Interrupt on a
\* playing reply: the audio is paused, nothing will settle the playback
\* promise, and the run stays at its await with the processing flag set.
C31_FailingState ==
  /\ engineRef /\ analyser /\ vadLoop
  /\ lastTick = "manual" /\ isProcessing
  /\ \E r \in Runs :
       /\ run[r].pc = "play" /\ audio[r] = "paused"
       /\ ~ENABLED (AudioEnded(r) \/ AudioError(r))
       /\ \A q \in Runs \ {r} : run[q].pc = "idle"

\* ------------------------------------------------------------------ C32
\* C32: the processing flag is set exactly when at least one run is in
\* flight.
C32_FlagIffRunInFlight ==
  isProcessing <=> (\E r \in Runs : run[r].pc \in InFlight)

\* During a call still in progress the older of two runs has ended, found
\* stale, and the flag is clear while the newer run awaits its
\* reply-generation call as the current generation.
C32_FailingState ==
  /\ engineRef /\ analyser /\ vadLoop
  /\ ~isProcessing /\ ~GetProcessingState.isProcessing
  /\ \E r1, r2 \in Runs :
       /\ run[r1].pc = "done" /\ run[r1].staleBy = run[r2].id
       /\ run[r2].id > run[r1].id
       /\ run[r2].pc = "gpt" /\ currentProcessingId = run[r2].id

\* ------------------------------------------------------------------ C33
\* C33: whenever a synthesized audio is playing, the playback handle refers
\* to it.
C33_HandleRefersToPlayingAudio ==
  \A r \in Runs : audio[r] = "playing" => currentAudio = r

\* During a call still in progress the older of two audios has ended and
\* the newer one, of the current generation, plays on with the handle null:
\* the engine reports that it is not speaking.
C33_FailingState ==
  /\ engineRef /\ analyser /\ vadLoop
  /\ currentAudio = NoRun /\ ~GetProcessingState.isSpeaking
  /\ \E r1, r2 \in Runs :
       /\ run[r2].id > run[r1].id
       /\ audio[r1] = "ended" /\ run[r1].pc = "done"
       /\ audio[r2] = "playing" /\ run[r2].pc = "play"
       /\ currentProcessingId = run[r2].id

\* ------------------------------------------------------------------ C34
\* C34: endpointing completes. Once recording has started, it stops in the
\* end unless a later reading is above 0.05, also when the later readings
\* stay between 0.01 and 0.05.
C34_EndpointingCompletes ==
  (mediaRecorder = "recording")
    ~> (mediaRecorder # "recording" \/ lastTick \in {"speech", "interruption"})

\* What the code does guarantee: a recording during which a reading below
\* 0.01 is taken stops, and the stop event is delivered, unless a later
\* reading is above 0.05 (as far as the bound MaxRuns leaves a run for the
\* utterance).
C34_SilentReadingEndsRecording ==
  /\ (mediaRecorder = "recording" /\ lastTick \in {"silence", "trailing"})
       ~> \/ mediaRecorder # "recording"
          \/ lastTick \in {"speech", "interruption"}
          \/ IdleRuns = {}
  /\ (stopTasks > 0) ~> (stopTasks = 0 \/ IdleRuns = {})

\* The recorder records in a call still in progress, the reading just taken
\* lies between the thresholds, and no silence timer is pending that could
\* stop the recorder.
C34_FailingState ==
  /\ engineRef /\ analyser /\ vadLoop
  /\ mediaRecorder = "recording" /\ stopTasks = 0
  /\ lastTick = "band"
  /\ silenceTimer = 0 /\ ~ENABLED TimerFire

\* ------------------------------------------------------------------ C35
\* C35: no premature endpointing. The silence timer stops the recorder only
\* when its delay has passed (the clock, kept up to one past the newest
\* generation id, has reached the deadline) and no reading above 0.05 was
\* taken since it was armed, and a recording never begins with a timer
\* pending that was armed before it.
C35_NoPrematureEndpointing ==
  [][/\ (TimerFire /\ mediaRecorder = "recording")
          => ~heard /\ now' >= ClockValue(silenceTimer)
     /\ (mediaRecorder # "recording" /\ mediaRecorder' = "recording")
          => silenceTimer' = 0 /\ ~heard']_vars

\* The timer has just stopped the recorder in a call still in progress,
\* after an earlier utterance: the stop event is queued and no timer is
\* pending.
C35_Witness ==
  /\ engineRef /\ analyser /\ vadLoop
  /\ mediaRecorder = "inactive" /\ stopTasks = 1
  /\ silenceTimer = 0 /\ ~heard
  /\ lastTick = "none" /\ now > 1

C37_AppointmentSavedOnce ==
  \A o \in ContextIds : contexts[o].saves <= 1

\* A context routed to the booking agent and never transferred holds the
\* four required entities, two messages have been processed in it one after
\* the other, and two appointment records were created for it.
C37_FailingState ==
  \E c \in Customers :
    /\ activeContexts[c] # NoContext
    /\ pending[c] = Idle /\ lastCall = <<"processMessage", c, "returned">>
    /\ LET context == contexts[activeContexts[c]]
       IN /\ context.customerId = c /\ context.currentAgent = "booking"
          /\ context.entities = RequiredEntities
          /\ context.history = 3
          /\ context.saves = 2

\* ------------------------------------------------------------------ C38
\* C38: processMessage and transferCall for a customer without an active
\* context throw, issue no external call and leave the map and every
\* context as they were; routeCall stores a context under its customer and
\* endCall removes that customer's entry, both leaving the other customers'
\* entries and contexts alone.
C38_UnknownCustomerIsRejected ==
  [][\A c \in Customers :
       /\ (activeContexts[c] = NoContext /\ ProcessMessage(c))
            => /\ lastCall' = <<"processMessage", c, "threw">>
               /\ UNCHANGED <<activeContexts, contexts, pending>>
       /\ \A target \in AgentTypes :
            (activeContexts[c] = NoContext /\ TransferCall(c, target))
              => /\ lastCall' = <<"transferCall", c, "threw">>
                 /\ UNCHANGED <<activeContexts, contexts, pending>>
       /\ \A found \in EntitySets :
            RouteEntitiesReturn(c, found)
              => /\ activeContexts'[c] # NoContext
                 /\ contexts[activeContexts'[c]] = Unallocated
                 /\ contexts'[activeContexts'[c]].customerId = c
                 /\ \A d \in Customers \ {c} :
                      activeContexts'[d] = activeContexts[d]
                 /\ \A o \in Allocated : contexts'[o] = contexts[o]
       /\ ManagerEndCall(c)
            => /\ activeContexts'[c] = NoContext
               /\ \A d \in Customers \ {c} :
                    activeContexts'[d] = activeContexts[d]
               /\ UNCHANGED <<contexts, pending>>]_vars

\* processMessage has just thrown for a customer without a context while
\* another customer has a context and a call awaiting on it.
C38_Witness ==
  \E c, d \in Customers :
    /\ lastCall = <<"processMessage", c, "threw">>
    /\ activeContexts[c] = NoContext /\ pending[c] = Idle
    /\ activeContexts[d] # NoContext
    /\ pending[d].pc = "extract" /\ pending[d].ctx = activeContexts[d]

====
